---- MODULE Spec2Model ----
(***************************************************************************)
(* Document ingestion of the AI Lab demo: the text chunker (chunkText,     *)
(* createChunk) and the document assembler (processDocument) of the        *)
(* document processing service.                                            *)
(*                                                                         *)
(* A text is a sequence of one-character strings.  JavaScript indices are  *)
(* 0-based and slice(start, end) excludes end, so the character at the     *)
(* JavaScript index i is t[i + 1] here; startIndex and endIndex keep the   *)
(* JavaScript values.                                                      *)
(***************************************************************************)
EXTENDS Integers, Sequences, FiniteSets, TLC

VARIABLES
    now,          \* the value Date.now() returns (milliseconds)
    text,         \* chunkText: the text argument
    options,      \* chunkText: the options argument (a partial record)
    pc,           \* position of the running chunkText call
    cleanText,    \* chunkText: the normalized text
    startIndex,   \* chunkText: start of the current window
    chunkIndex,   \* chunkText: index of the next emitted chunk
    chunks,       \* chunkText: the chunk list built so far
    iter,         \* number of iterations of the scan loop executed so far
    calls,        \* processDocument: state of each call
    running,      \* the processDocument call that holds the thread, 0 if none
    document,     \* processDocument: the document of the running call
    fetched,      \* processURL: the call and the response it works on
    retrieval,    \* retrieve_docs / queryVectors: the retrieval in progress
    embedding,    \* generateEmbeddings: the batch call in progress
    upload,       \* document upload handler: the request in progress
    storage,      \* chat storage: the local storage item and the last call made
    history,      \* useChatHistory: the state of the hook
    chat,         \* useChatStore: the state of the chat store
    component     \* DocumentUpload: the state of the upload component

vars == <<now, text, options, pc, cleanText, startIndex, chunkIndex, chunks,
          iter, calls, running, document, fetched, retrieval, embedding, upload,
          storage, history, chat, component>>

\* the state of the chat user interface
uiVars == <<storage, history, chat, component>>

\* the state of the collaborators of the ingestion pipeline
clientVars == <<fetched, retrieval, embedding, upload, uiVars>>

chunkVars == <<text, options, pc, cleanText, startIndex, chunkIndex, chunks, iter>>

-----------------------------------------------------------------------------
(* Bounds of the model *)

MaxLen == 4
MaxChunkSize == 3
MaxOverlap == 3
MaxMinChunk == 2
MaxClock == 1
MaxCalls == 2

-----------------------------------------------------------------------------
(* Characters and strings *)

Alphabet == {"a", " ", "\n", "\r", "."}

\* the characters String.prototype.trim and the regular expression \s remove
Whitespace == {" ", "\n", "\r", "\t"}

Min(a, b) == IF a <= b THEN a ELSE b

Max(a, b) == IF a >= b THEN a ELSE b

\* text.replace(/\r\n/g, '\n'): the \r of every \r\n pair is dropped
ReplaceCRLF(t) ==
    LET idx == SelectSeq([i \in 1..Len(t) |-> i],
                         LAMBDA i : ~(t[i] = "\r" /\ i < Len(t) /\ t[i + 1] = "\n"))
    IN  [k \in 1..Len(idx) |-> t[idx[k]]]

\* text.replace(/\r/g, '\n')
ReplaceCR(t) == [i \in 1..Len(t) |-> IF t[i] = "\r" THEN "\n" ELSE t[i]]

\* text.replace(/\n{3,}/g, '\n\n'): of a run of newlines the first two stay
CollapseNewlines(t) ==
    LET idx == SelectSeq([i \in 1..Len(t) |-> i],
                         LAMBDA i : ~(i >= 3 /\ t[i] = "\n" /\ t[i - 1] = "\n"
                                             /\ t[i - 2] = "\n"))
    IN  [k \in 1..Len(idx) |-> t[idx[k]]]

\* String.prototype.trim
Trim(t) ==
    IF \A i \in 1..Len(t) : t[i] \in Whitespace
    THEN <<>>
    ELSE LET lo == CHOOSE i \in 1..Len(t) :
                       t[i] \notin Whitespace /\ \A j \in 1..(i - 1) : t[j] \in Whitespace
             hi == CHOOSE i \in 1..Len(t) :
                       t[i] \notin Whitespace /\ \A j \in (i + 1)..Len(t) : t[j] \in Whitespace
         IN  SubSeq(t, lo, hi)

\* String.prototype.slice(s, e) for 0 <= s, 0 <= e
Slice(t, s, e) == SubSeq(t, Min(s, Len(t)) + 1, Min(e, Len(t)))

\* String.prototype.lastIndexOf(pat, from): the greatest JavaScript index
\* i <= from at which pat occurs in t, -1 if there is none
LastIndexOf(t, pat, from) ==
    LET hits == {i \in 0..Min(from, Len(t) - Len(pat)) :
                    \A k \in 1..Len(pat) : t[i + k] = pat[k]}
    IN  IF hits = {} THEN -1
        ELSE CHOOSE i \in hits : \A j \in hits : j <= i

\* content.split(/\s+/).length: one more than the number of whitespace runs
WordCount(c) ==
    1 + Cardinality({i \in 1..Len(c) :
                        c[i] \in Whitespace /\ (i = 1 \/ c[i - 1] \notin Whitespace)})

-----------------------------------------------------------------------------
(* Chunking options *)

DEFAULT_CHUNKING_OPTIONS ==
    [chunkSize |-> 1000, chunkOverlap |-> 200, minChunkSize |-> 100,
     preserveParagraphs |-> TRUE]

\* { ...DEFAULT_CHUNKING_OPTIONS, ...options }
MergeOptions(o) ==
    [k \in DOMAIN DEFAULT_CHUNKING_OPTIONS |->
        IF k \in DOMAIN o THEN o[k] ELSE DEFAULT_CHUNKING_OPTIONS[k]]

opts == MergeOptions(options)

\* the options argument left out
NoOptions == <<>>

SmallOptions ==
    [chunkSize : 1..MaxChunkSize, chunkOverlap : 0..MaxOverlap,
     minChunkSize : 0..MaxMinChunk, preserveParagraphs : BOOLEAN]

-----------------------------------------------------------------------------
(* Inputs *)

SmallTexts == UNION {[1..n -> Alphabet] : n \in 0..MaxLen}

\* Scenario A: 2500 characters of prose with a paragraph break every 400
ScenarioAText == [i \in 1..2500 |-> IF i % 400 \in {399, 0} THEN "\n" ELSE "a"]

\* texts in which a paragraph break and a period both lie in the first window
BoundaryTexts ==
    {<<"a", ".", "\n", "\n", "a", "a">>, <<"a", "\n", "\n", ".", "a">>}

-----------------------------------------------------------------------------
(* createChunk *)

\* a createChunk that lets the clock into the character count
createChunkStamped(content, index, start, end, source, documentTitle) ==
    [id |-> <<"chunk", now, index>>,
     documentId |-> "",
     content |-> content,
     index |-> index,
     startIndex |-> start,
     endIndex |-> end,
     metadata |-> [wordCount |-> WordCount(content),
                   charCount |-> Len(content) + now,
                   source |-> source,
                   documentTitle |-> documentTitle]]

createChunk(content, index, start, end, source, documentTitle) ==
    [id |-> <<"chunk", now, index>>,
     documentId |-> "",
     content |-> content,
     index |-> index,
     startIndex |-> start,
     endIndex |-> end,
     metadata |-> [wordCount |-> WordCount(content),
                   charCount |-> Len(content),
                   source |-> source,
                   documentTitle |-> documentTitle]]

-----------------------------------------------------------------------------
(* chunkText *)

\* a text argument that is no string (undefined): text.trim() throws on it
Undefined == <<"undefined">>

\* the blank test written without trim
IsBlankEmptyOnly(t) == t = <<>>

\* !text.trim()
IsBlank(t) == Trim(t) = <<>>

Normalize(t) == Trim(CollapseNewlines(ReplaceCR(ReplaceCRLF(t))))

\* the short-circuit test written with < for <=
IsSingleChunkStrict(clean, o) == Len(clean) < o.chunkSize

\* cleanText.length <= opts.chunkSize
IsSingleChunk(clean, o) == Len(clean) <= o.chunkSize

\* the end of the window that starts at start
\* a window end that prefers the period to the paragraph break
WindowEndSentenceFirst(clean, start, o) ==
    LET hard == Min(start + o.chunkSize, Len(clean))
    IN  IF o.preserveParagraphs /\ hard < Len(clean)
        THEN LET paragraphEnd == LastIndexOf(clean, <<"\n", "\n">>, hard)
                 sentenceEnd == LastIndexOf(clean, <<".">>, hard)
             IN  IF sentenceEnd > start + o.minChunkSize THEN sentenceEnd + 1
                 ELSE IF paragraphEnd > start + o.minChunkSize THEN paragraphEnd + 2
                 ELSE hard
        ELSE hard

WindowEnd(clean, start, o) ==
    LET hard == Min(start + o.chunkSize, Len(clean))
    IN  IF o.preserveParagraphs /\ hard < Len(clean)
        THEN LET paragraphEnd == LastIndexOf(clean, <<"\n", "\n">>, hard)
                 sentenceEnd == LastIndexOf(clean, <<".">>, hard)
             IN  IF paragraphEnd > start + o.minChunkSize THEN paragraphEnd + 2
                 ELSE IF sentenceEnd > start + o.minChunkSize THEN sentenceEnd + 1
                 ELSE hard
        ELSE hard

\* the minimum-size test applied to the window before it is trimmed
KeepChunkUntrimmed(raw, o) == Len(raw) >= o.minChunkSize

\* the minimum-size test written with > for >=
KeepChunkStrict(raw, o) == Len(Trim(raw)) > o.minChunkSize

\* chunkContent.length >= opts.minChunkSize, for the untrimmed window raw
KeepChunk(raw, o) == Len(Trim(raw)) >= o.minChunkSize

NextStart(start, end, o) == Max(end - o.chunkOverlap, start + o.minChunkSize)

\* the scan loop is followed for at most this many iterations
IterCap(clean) == Len(clean) + 1

\* entry of chunkText up to the first test of the loop condition
ChunkTextEnter ==
    /\ pc = "call"
    /\ IF text = Undefined
       THEN /\ pc' = "threw"
            /\ cleanText' = <<>>
            /\ chunks' = <<>>
       ELSE IF IsBlank(text)
       THEN /\ pc' = "done"
            /\ cleanText' = <<>>
            /\ chunks' = <<>>
       ELSE LET clean == Normalize(text)
            IN  /\ cleanText' = clean
                /\ IF IsSingleChunk(clean, opts)
                   THEN /\ chunks' = <<createChunk(clean, 0, 0, Len(clean), "text",
                                                   "Single Document")>>
                        /\ pc' = "done"
                   ELSE /\ chunks' = <<>>
                        /\ pc' = IF 0 < Len(clean) THEN "loop" ELSE "done"
    /\ startIndex' = 0
    /\ chunkIndex' = 0
    /\ iter' = 0
    /\ UNCHANGED <<now, text, options, calls, running, document, clientVars>>

\* one iteration of the scan loop, with the loop test that follows it
ChunkTextLoop ==
    /\ pc = "loop"
    /\ iter < IterCap(cleanText)
    /\ LET endIndex == WindowEnd(cleanText, startIndex, opts)
           raw == Slice(cleanText, startIndex, endIndex)
           nextStart == NextStart(startIndex, endIndex, opts)
       IN  /\ IF KeepChunk(raw, opts)
              THEN /\ chunks' = Append(chunks,
                                       createChunk(Trim(raw), chunkIndex, startIndex,
                                                   endIndex, "text", "Document"))
                   /\ chunkIndex' = chunkIndex + 1
              ELSE UNCHANGED <<chunks, chunkIndex>>
           /\ IF nextStart >= endIndex
              THEN /\ pc' = "done"
                   /\ UNCHANGED startIndex
              ELSE /\ startIndex' = nextStart
                   /\ pc' = IF nextStart < Len(cleanText) THEN "loop" ELSE "done"
    /\ iter' = iter + 1
    /\ UNCHANGED <<now, text, options, cleanText, calls, running, document, clientVars>>

-----------------------------------------------------------------------------
(* processDocument *)

NoResult == [success |-> FALSE, document |-> <<>>, chunks |-> <<>>,
             error |-> "", processingTime |-> 0]

NoSource == [type |-> "", content |-> <<>>, title |-> "", chunkingOptions |-> <<>>]

IdleCall == [state |-> "idle", source |-> NoSource, startTime |-> 0, result |-> NoResult]

NoCalls == [p \in 1..MaxCalls |-> IdleCall]

\* the texts the extractors deliver and the literal sources carry
DocContents == {<<"a">>, <<"a", "a", "a">>, <<" ">>}

DocOptions ==
    {[chunkSize |-> 2, chunkOverlap |-> 1, minChunkSize |-> 1, preserveParagraphs |-> TRUE]}

\* a literal source may carry a content that is no string; the extractors
\* always deliver strings
Sources ==
    [type : {"pdf", "url", "text"}, content : DocContents, title : {"T"},
     chunkingOptions : DocOptions]
    \cup [type : {"text"}, content : {Undefined}, title : {"T"},
          chunkingOptions : DocOptions]

\* the document literal built after extraction
NewDocument(src) ==
    [id |-> <<"doc", now>>,
     title |-> src.title,
     content |-> src.content,
     source |-> src.type,
     metadata |-> [processedAt |-> now, chunkCount |-> 0],
     status |-> "processing",
     createdAt |-> now,
     updatedAt |-> now]

\* the result of the catch block, with the partly built document left in it
FailureResultPartial(message, startTime) ==
    [success |-> FALSE, document |-> document, chunks |-> <<>>, error |-> message,
     processingTime |-> now - startTime]

\* the result of the catch block
FailureResult(message, startTime) ==
    [success |-> FALSE, document |-> <<>>, chunks |-> <<>>, error |-> message,
     processingTime |-> now - startTime]

\* the association that forgets the document's title
AssociateChunksIdOnly(cs, doc, title) ==
    [i \in 1..Len(cs) |-> [cs[i] EXCEPT !.documentId = doc.id]]

\* chunks.forEach(chunk => { chunk.documentId = ...; chunk.metadata.documentTitle = ... })
AssociateChunks(cs, doc, title) ==
    [i \in 1..Len(cs) |->
        [cs[i] EXCEPT !.documentId = doc.id, !.metadata.documentTitle = title]]

\* the call is made: startTime is read; a literal source needs no extraction
\* and the call keeps the thread, a pdf or url source awaits its extractor
ProcessDocumentCall(p) ==
    /\ running = 0
    /\ calls[p].state = "idle"
    /\ \E src \in Sources :
          /\ calls' = [calls EXCEPT ![p] =
                          [state |-> IF src.type = "text" THEN "extracted" ELSE "extracting",
                           source |-> src, startTime |-> now, result |-> NoResult]]
          /\ running' = IF src.type = "text" THEN p ELSE 0
    /\ UNCHANGED <<now, chunkVars, document, clientVars>>

\* processPDF or processURL resolves and the call resumes
ExtractSucceeds(p) ==
    /\ running = 0
    /\ calls[p].state = "extracting"
    /\ calls' = [calls EXCEPT ![p].state = "extracted"]
    /\ running' = p
    /\ UNCHANGED <<now, chunkVars, document, clientVars>>

\* processPDF or processURL throws: the catch block builds the failure result
ExtractFails(p) ==
    /\ running = 0
    /\ calls[p].state = "extracting"
    /\ calls' = [calls EXCEPT ![p].state = "returned",
                              ![p].result = FailureResult("Failed to process",
                                                          calls[p].startTime)]
    /\ UNCHANGED <<now, chunkVars, running, document, clientVars>>

\* the document is created and chunkText is entered
CreateDocument(p) ==
    /\ running = p
    /\ calls[p].state = "extracted"
    /\ document' = NewDocument(calls[p].source)
    /\ text' = calls[p].source.content
    /\ options' = calls[p].source.chunkingOptions
    /\ pc' = "call"
    /\ calls' = [calls EXCEPT ![p].state = "chunking"]
    /\ UNCHANGED <<now, cleanText, startIndex, chunkIndex, chunks, iter, running, clientVars>>

\* chunkText has returned: the chunks are associated and the result returned
ProcessDocumentReturn(p) ==
    /\ running = p
    /\ calls[p].state = "chunking"
    /\ pc = "done"
    /\ LET title == calls[p].source.title
           cs == AssociateChunks(chunks, document, title)
           doc == [id |-> document.id,
                   title |-> document.title,
                   content |-> document.content,
                   source |-> document.source,
                   metadata |-> [document.metadata EXCEPT !.chunkCount = Len(cs)],
                   status |-> "completed",
                   createdAt |-> document.createdAt,
                   updatedAt |-> document.updatedAt,
                   chunks |-> cs]
       IN  calls' = [calls EXCEPT ![p].state = "returned",
                                  ![p].result = [success |-> TRUE, document |-> doc,
                                                 chunks |-> cs, error |-> "",
                                                 processingTime |-> now - calls[p].startTime]]
    /\ running' = 0
    /\ pc' = "idle"
    /\ document' = <<>>
    /\ UNCHANGED <<now, text, options, cleanText, startIndex, chunkIndex, chunks, iter, clientVars>>

\* chunkText has thrown: the catch block builds the failure result
ProcessDocumentCatch(p) ==
    /\ running = p
    /\ calls[p].state = "chunking"
    /\ pc = "threw"
    /\ calls' = [calls EXCEPT ![p].state = "returned",
                              ![p].result = FailureResult("text.trim is not a function",
                                                          calls[p].startTime)]
    /\ running' = 0
    /\ pc' = "idle"
    /\ document' = <<>>
    /\ UNCHANGED <<now, text, options, cleanText, startIndex, chunkIndex, chunks, iter,
                   clientVars>>

\* the clock advances by a millisecond
Tick ==
    /\ now < MaxClock
    /\ now' = now + 1
    /\ UNCHANGED <<chunkVars, calls, running, document, clientVars>>

-----------------------------------------------------------------------------
(* processURL *)

\* An HTTP header value or an HTML page is a sequence of tokens: "<", ">",
\* "/", ";" and " " are single characters, every other token is a run of
\* characters that holds none of them.

\* String.prototype.includes
Includes(t, pat) ==
    \E i \in 0..(Len(t) - Len(pat)) : \A k \in 1..Len(pat) : t[i + k] = pat[k]

\* the position of the first ">" of t after position i, 0 if there is none
FirstClose(t, i) ==
    IF \E j \in (i + 1)..Len(t) : t[j] = ">"
    THEN CHOOSE j \in (i + 1)..Len(t) :
             t[j] = ">" /\ \A m \in (i + 1)..(j - 1) : t[m] # ">"
    ELSE 0

\* the position of the first "</tag>" of t that starts after position j,
\* 0 if there is none
FirstEndTag(t, tag, j) ==
    LET ends == {k \in (j + 1)..(Len(t) - 3) :
                    t[k] = "<" /\ t[k + 1] = "/" /\ t[k + 2] = tag /\ t[k + 3] = ">"}
    IN  IF ends = {} THEN 0 ELSE CHOOSE k \in ends : \A m \in ends : k <= m

\* /<tag[^>]*>.*?<\/tag>/gis matches at position i of t
BlockAt(t, tag, i) ==
    /\ i + 1 <= Len(t)
    /\ t[i] = "<"
    /\ t[i + 1] = tag
    /\ FirstClose(t, i + 1) # 0
    /\ FirstEndTag(t, tag, FirstClose(t, i + 1)) # 0

\* html.replace(/<tag[^>]*>.*?<\/tag>/gis, '')
RECURSIVE RemoveBlocks(_, _)
RemoveBlocks(t, tag) ==
    IF \E i \in 1..Len(t) : BlockAt(t, tag, i)
    THEN LET i == CHOOSE i \in 1..Len(t) :
                      BlockAt(t, tag, i) /\ \A m \in 1..(i - 1) : ~BlockAt(t, tag, m)
             k == FirstEndTag(t, tag, FirstClose(t, i + 1))
         IN  SubSeq(t, 1, i - 1) \o RemoveBlocks(SubSeq(t, k + 4, Len(t)), tag)
    ELSE t

\* /<[^>]+>/g matches at position i of t
TagAt(t, i) ==
    /\ i + 1 <= Len(t)
    /\ t[i] = "<"
    /\ t[i + 1] # ">"
    /\ FirstClose(t, i + 1) # 0

\* html.replace(/<[^>]+>/g, ' ')
RECURSIVE ReplaceTags(_)
ReplaceTags(t) ==
    IF \E i \in 1..Len(t) : TagAt(t, i)
    THEN LET i == CHOOSE i \in 1..Len(t) :
                      TagAt(t, i) /\ \A m \in 1..(i - 1) : ~TagAt(t, m)
         IN  SubSeq(t, 1, i - 1) \o <<" ">>
                 \o ReplaceTags(SubSeq(t, FirstClose(t, i + 1) + 1, Len(t)))
    ELSE t

\* html.replace(/\s+/g, ' '): of a run of whitespace one space stays
CollapseWhitespace(t) ==
    LET idx == SelectSeq([i \in 1..Len(t) |-> i],
                         LAMBDA i : ~(t[i] \in Whitespace /\ i > 1 /\ t[i - 1] \in Whitespace))
    IN  [k \in 1..Len(idx) |-> IF t[idx[k]] \in Whitespace THEN " " ELSE t[idx[k]]]

\* the simple HTML text extraction
StripHtml(html) ==
    Trim(CollapseWhitespace(ReplaceTags(RemoveBlocks(RemoveBlocks(html, "script"), "style"))))

\* /<title[^>]*>([^<]+)<\/title>/i matches at position i of t
TitleAt(t, i) ==
    /\ i + 1 <= Len(t)
    /\ t[i] = "<"
    /\ t[i + 1] = "title"
    /\ LET j == FirstClose(t, i + 1)
       IN  /\ j # 0
           /\ \E k \in (j + 2)..(Len(t) - 3) :
                 /\ \A m \in (j + 1)..(k - 1) : t[m] # "<"
                 /\ t[k] = "<" /\ t[k + 1] = "/" /\ t[k + 2] = "title" /\ t[k + 3] = ">"

\* html.match(/<title[^>]*>([^<]+)<\/title>/i)?.[1] || 'Untitled'
TitleOrUntitled(html) ==
    IF \E i \in 1..Len(html) : TitleAt(html, i)
    THEN LET i == CHOOSE i \in 1..Len(html) :
                      TitleAt(html, i) /\ \A m \in 1..(i - 1) : ~TitleAt(html, m)
             j == FirstClose(html, i + 1)
             k == CHOOSE k \in (j + 2)..(Len(html) - 3) :
                      /\ \A m \in (j + 1)..(k - 1) : html[m] # "<"
                      /\ html[k] = "<"
         IN  SubSeq(html, j + 1, k - 1)
    ELSE <<"Untitled">>

\* the values of the content-type header; the empty one stands for a
\* response without the header (headers.get returns null)
ContentTypes ==
    {<<>>,
     <<"text/", "html">>,
     <<"text/", "html", ";", "charset=utf-8">>,
     <<"text/", "plain">>,
     <<"application/", "json">>,
     <<"multipart/", "related", ";", "type=", "text/", "html">>}

MaxBody == 2

HtmlAlphabet == {"<", ">", "/", "script", "title", "a", " "}

Bodies ==
    UNION {[1..n -> HtmlAlphabet] : n \in 0..MaxBody}
    \cup {<<"<", "title", ">", "a", "<", "/", "title", ">",
            "<", "script", ">", "a", "<", "/", "script", ">", "a">>,
          <<"<", "title", ">", "<", "/", "title", ">", "a", " ", " ", "a">>,
          <<"a", "<", "a", " ", "a", ">", "a">>,
          <<"<", "script", ">", "a">>,
          <<"<", "style", " ", "a", ">", "<", "a", ">", "<", "/", "style", ">", "a">>}

Responses == [ok : BOOLEAN, contentType : ContentTypes, body : Bodies]

NoResponse == [ok |-> FALSE, contentType |-> <<>>, body |-> <<>>]

FetchIdle ==
    [state |-> "idle", response |-> NoResponse, content |-> <<>>, title |-> <<>>,
     error |-> ""]

\* processURL is called and awaits fetch(url)
ProcessURLCall ==
    /\ fetched.state = "idle"
    /\ fetched' = [fetched EXCEPT !.state = "fetching"]
    /\ UNCHANGED <<now, chunkVars, calls, running, document, uiVars, retrieval, embedding, upload>>

\* fetch rejects (no response): the catch block rethrows
FetchFails ==
    /\ fetched.state = "fetching"
    /\ fetched' = [fetched EXCEPT !.state = "threw", !.error = "fetch failed"]
    /\ UNCHANGED <<now, chunkVars, calls, running, document, uiVars, retrieval, embedding, upload>>

\* contentType.includes('text/html')
IsHtml(contentType) == Includes(contentType, <<"text/", "html">>)

\* contentType.includes('text/')
IsText(contentType) == Includes(contentType, <<"text/">>)

\* fetch resolves: the status and the content type are tested; the body of
\* a supported response is awaited
FetchResponds ==
    /\ fetched.state = "fetching"
    /\ \E r \in Responses :
          fetched' =
              IF ~r.ok
              THEN [fetched EXCEPT !.state = "threw", !.response = r, !.error = "HTTP"]
              ELSE IF IsHtml(r.contentType) \/ IsText(r.contentType)
              THEN [fetched EXCEPT !.state = "reading", !.response = r]
              ELSE [fetched EXCEPT !.state = "threw", !.response = r,
                                   !.error = "Unsupported content type"]
    /\ UNCHANGED <<now, chunkVars, calls, running, document, uiVars, retrieval, embedding, upload>>

\* response.text() resolves: the content and the metadata are returned
ReadBody ==
    /\ fetched.state = "reading"
    /\ LET r == fetched.response
       IN  fetched' =
               IF IsHtml(r.contentType)
               THEN [fetched EXCEPT !.state = "returned", !.content = StripHtml(r.body),
                                    !.title = TitleOrUntitled(r.body)]
               ELSE [fetched EXCEPT !.state = "returned", !.content = r.body]
    /\ UNCHANGED <<now, chunkVars, calls, running, document, uiVars, retrieval, embedding, upload>>

\* response.text() rejects: the catch block rethrows
ReadBodyFails ==
    /\ fetched.state = "reading"
    /\ fetched' = [fetched EXCEPT !.state = "threw", !.error = "read failed"]
    /\ UNCHANGED <<now, chunkVars, calls, running, document, uiVars, retrieval, embedding, upload>>

-----------------------------------------------------------------------------
(* queryVectors and the retrieve_docs tool *)

\* Similarity scores and thresholds are counted in tenths: 3 stands for 0.3.

\* an optional argument that the caller left out
None == -1

\* options.topK || 5
QueryDefaultTopK == 5

\* options.threshold || 0.3
QueryDefaultThreshold == 3

\* execute: async ({ query, topK = 5, threshold = 0.3 })
ToolDefaultTopK == 5

ToolDefaultThreshold == 3

\* config.rag.retrieval.topK
ConfigTopK == 5

\* Math.min(threshold, 0.3)
ToolThresholdCap == 3

MaxTopK == 2

Scores == {0, 2, 3, 5, 10}

Thresholds == {0, 2, 3, 8, 10}

TopKs == {1, MaxTopK}

\* the tool's callers may also ask for more than the configured maximum
ToolTopKs == TopKs \cup {20}

\* a || b for numbers: 0 and a missing value are falsy
OrElse(a, b) == IF a = None \/ a = 0 THEN b ELSE a

\* a default parameter value: only a missing argument takes it
Default(a, b) == IF a = None THEN b ELSE a

\* what the vector store may answer to a query for k matches: at most k
\* scores in descending order
StoreResponses(k) ==
    {m \in UNION {[1..n -> Scores] : n \in 0..k} :
        \A i \in 1..(Len(m) - 1) : m[i] >= m[i + 1]}

\* queryResponse.matches.filter(match => match.score && match.score >= threshold)
FilterMatches(matches, threshold) ==
    SelectSeq(matches, LAMBDA score : score # 0 /\ score >= threshold)

\* the result of the tool's catch block without its error flag
ToolErrorUnflagged(r, cause) ==
    [r EXCEPT !.state = "done", !.failure = cause, !.outcome = "returned",
              !.results = <<>>, !.message = "Error searching documents"]

\* the result of the tool's catch block
ToolError(r, cause) ==
    [r EXCEPT !.state = "done", !.failure = cause, !.outcome = "returned",
              !.results = <<>>, !.message = "Error searching documents", !.flagged = TRUE]

RetrievalIdle ==
    [state |-> "idle", caller |-> "", blankQuery |-> FALSE, topK |-> None,
     threshold |-> None, queryTopK |-> None, queryThreshold |-> None, matches |-> <<>>,
     filtered |-> <<>>, failure |-> "none", outcome |-> "none", results |-> <<>>,
     message |-> "", flagged |-> FALSE]

\* the retrieve_docs tool is executed and awaits generateEmbedding(query)
RetrieveDocsCall ==
    /\ retrieval.state = "idle"
    /\ \E blank \in BOOLEAN, k \in ToolTopKs \cup {None}, th \in Thresholds \cup {None} :
          retrieval' = [retrieval EXCEPT !.state = "embedding", !.caller = "tool",
                                         !.blankQuery = blank, !.topK = k, !.threshold = th]
    /\ UNCHANGED <<now, chunkVars, calls, running, document, uiVars, fetched, embedding, upload>>

\* generateEmbedding resolves: the tool calls queryVectors, which awaits the store
RetrieveDocsEmbedded ==
    /\ retrieval.state = "embedding"
    /\ ~retrieval.blankQuery
    /\ retrieval' =
           [retrieval EXCEPT
               !.state = "querying",
               !.queryTopK = Min(Default(retrieval.topK, ToolDefaultTopK), ConfigTopK),
               !.queryThreshold = Min(Default(retrieval.threshold, ToolDefaultThreshold),
                                      ToolThresholdCap)]
    /\ UNCHANGED <<now, chunkVars, calls, running, document, uiVars, fetched, embedding, upload>>

\* generateEmbedding throws (blank query or upstream failure)
RetrieveDocsEmbedFails ==
    /\ retrieval.state = "embedding"
    /\ retrieval' = ToolError(retrieval, "embedding")
    /\ UNCHANGED <<now, chunkVars, calls, running, document, uiVars, fetched, embedding, upload>>

\* queryVectors is called by another caller (the RAG test route)
QueryVectorsCall ==
    /\ retrieval.state = "idle"
    /\ \E k \in TopKs \cup {None}, th \in Thresholds \cup {None} :
          retrieval' = [retrieval EXCEPT !.state = "querying", !.caller = "direct",
                                         !.queryTopK = k, !.queryThreshold = th]
    /\ UNCHANGED <<now, chunkVars, calls, running, document, uiVars, fetched, embedding, upload>>

\* the store answers: queryVectors filters and returns; the tool formats
QueryStoreResponds ==
    /\ retrieval.state = "querying"
    /\ \E m \in StoreResponses(OrElse(retrieval.queryTopK, QueryDefaultTopK)) :
          LET threshold == OrElse(retrieval.queryThreshold, QueryDefaultThreshold)
              filtered == FilterMatches(m, threshold)
          IN  retrieval' =
                  [retrieval EXCEPT
                      !.state = "done", !.matches = m, !.filtered = filtered,
                      !.outcome = "returned", !.results = filtered,
                      !.message = IF retrieval.caller = "direct" THEN ""
                                  ELSE IF Len(filtered) = 0
                                       THEN "No relevant documents found"
                                       ELSE "Found relevant document(s)"]
    /\ UNCHANGED <<now, chunkVars, calls, running, document, uiVars, fetched, embedding, upload>>

\* the store query throws: queryVectors rethrows; the tool's catch block
\* turns it into an error result
QueryStoreFails ==
    /\ retrieval.state = "querying"
    /\ retrieval' =
           IF retrieval.caller = "direct"
           THEN [retrieval EXCEPT !.state = "done", !.failure = "store",
                                  !.outcome = "threw",
                                  !.message = "Failed to retrieve relevant documents"]
           ELSE ToolError(retrieval, "store")
    /\ UNCHANGED <<now, chunkVars, calls, running, document, uiVars, fetched, embedding, upload>>

-----------------------------------------------------------------------------
(* generateEmbedding and generateEmbeddings *)

\* EMBEDDING_CONFIG.maxTokens
EmbeddingMaxTokens == 8192

\* const batchSize = 100
BatchSize == 100

MaxTexts == 201

\* the requests of a batch are answered front to back or back to front, and
\* in any order once this many or fewer are pending
MaxAnyOrder == 3

\* text.length > maxChars ? text.substring(0, maxChars) : text
Truncate(t) == SubSeq(t, 1, Min(Len(t), EmbeddingMaxTokens * 4))

\* the vector the embedding model computes for a value
Embed(value) == [embeddingOf |-> value]

Digit(d) == <<"0", "1", "2", "3", "4", "5", "6", "7", "8", "9">>[d + 1]

\* the decimal numeral of j: every position gets a text of its own
Numeral(j) ==
    IF j < 10 THEN <<Digit(j)>>
    ELSE IF j < 100 THEN <<Digit(j \div 10), Digit(j % 10)>>
    ELSE <<Digit(j \div 100), Digit((j \div 10) % 10), Digit(j % 10)>>

\* the text lists handed to generateEmbeddings: n texts, those at the
\* positions of blankAt whitespace-only
Texts(n, blankAt) == [j \in 1..n |-> IF j \in blankAt THEN <<" ">> ELSE Numeral(j)]

EmbedSizes == {0, 1, MaxAnyOrder, BatchSize, BatchSize + 1, MaxTexts}

EmbedInputs ==
    {Texts(n, {}) : n \in EmbedSizes}
    \cup {Texts(n, {q}) : n \in EmbedSizes \ {0}, q \in {1, BatchSize, BatchSize + 1, MaxTexts}}

EmbeddingIdle ==
    [state |-> "idle", texts |-> <<>>, i |-> 0, batches |-> 0, issued |-> 0,
     inflight |-> 0, pending |-> {}, values |-> <<>>, overtaken |-> FALSE,
     rejected |-> FALSE, failure |-> "none", embeddings |-> <<>>, result |-> <<>>]

\* texts.slice(i, i + batchSize), as positions of texts
Batch(e, i) == (i + 1)..Min(i + BatchSize, Len(e.texts))

\* batch.map(text => generateEmbedding(text)): every text that is not blank
\* gets its embed request, a blank one makes its promise reject at once
IssueBatch(e, i) ==
    LET requested == {j \in Batch(e, i) : ~IsBlank(e.texts[j])}
        requests == Cardinality(requested)
        blank == \E j \in Batch(e, i) : IsBlank(e.texts[j])
    IN  [e EXCEPT !.i = i, !.batches = @ + 1, !.issued = @ + requests,
                  !.inflight = @ + requests, !.pending = @ \cup requested,
                  !.values = <<>>, !.rejected = blank,
                  !.failure = IF blank THEN "blank" ELSE @]

\* the requests that may be answered next
CanComplete(e) ==
    LET requested == {j \in Batch(e, e.i) : ~IsBlank(e.texts[j])}
    IN  {j \in e.pending :
            \/ Cardinality(e.pending) <= MaxAnyOrder
            \/ (\A k \in e.pending : k >= j) /\ (\A k \in requested \ e.pending : k < j)
            \/ (\A k \in e.pending : k <= j) /\ (\A k \in requested \ e.pending : k > j)}

\* Promise.all reads the promises' values only while none has rejected
Awaited(e) == e.state = "awaiting" /\ ~e.rejected

\* the promises' values with the value v at position slot
Store(values, slot, v) ==
    [k \in DOMAIN values \cup {slot} |-> IF k = slot THEN v ELSE values[k]]

\* a fulfilment that takes the next free place of the batch
FulfilInArrivalOrder(e, j) ==
    [e EXCEPT !.pending = @ \ {j}, !.inflight = @ - 1,
              !.overtaken = @ \/ \E k \in e.pending : k < j,
              !.values = IF Awaited(e)
                         THEN Store(@, e.i + Cardinality(DOMAIN @) + 1,
                                    Embed(Truncate(e.texts[j])))
                         ELSE <<>>]

\* the request of texts[j] is answered: the promise made for position j is
\* fulfilled with the embedding of the (truncated) text; `overtaken` notes
\* that an answer came before that of an earlier position
Fulfil(e, j) ==
    [e EXCEPT !.pending = @ \ {j}, !.inflight = @ - 1,
              !.overtaken = @ \/ \E k \in e.pending : k < j,
              !.values = IF Awaited(e) THEN Store(@, j, Embed(Truncate(e.texts[j])))
                         ELSE <<>>]

\* what a promise that is not fulfilled holds
NoVector == Embed(<<>>)

\* the array Promise.all resolves to: the values in the promises' order
PromiseAll(e, lo, n) ==
    [j \in 1..n |-> IF lo + j \in DOMAIN e.values THEN e.values[lo + j] ELSE NoVector]

\* generateEmbeddings up to its first await
GenerateEmbeddings(texts) ==
    IF Len(texts) = 0
    THEN [EmbeddingIdle EXCEPT !.state = "returned"]
    ELSE IssueBatch([EmbeddingIdle EXCEPT !.state = "awaiting", !.texts = texts], 0)

\* a loop that does not await the batch
BatchSettledNoAwait(e) == TRUE

\* await Promise.all(batchPromises) resumes once every promise is fulfilled
BatchSettled(e) == e.inflight = 0

\* a catch block that hands back what was collected
EmbeddingsReturnPartial(e) == [e EXCEPT !.state = "returned", !.result = e.embeddings]

\* the catch block of generateEmbeddings
EmbeddingsThrow(e) == [e EXCEPT !.state = "threw", !.result = <<>>]

GenerateEmbeddingsCall ==
    /\ embedding.state = "idle"
    /\ \E texts \in EmbedInputs : embedding' = GenerateEmbeddings(texts)
    /\ UNCHANGED <<now, chunkVars, calls, running, document, uiVars, fetched, retrieval, upload>>

\* an embed request is answered
EmbedRequestCompletes ==
    /\ \E j \in CanComplete(embedding) : embedding' = Fulfil(embedding, j)
    /\ UNCHANGED <<now, chunkVars, calls, running, document, uiVars, fetched, retrieval, upload>>

\* an embed request fails upstream: generateEmbedding rethrows
EmbedRequestFails ==
    /\ \E j \in CanComplete(embedding) :
          embedding' =
              IF embedding.state = "awaiting"
              THEN [embedding EXCEPT !.inflight = @ - 1, !.pending = @ \ {j},
                                     !.values = <<>>, !.rejected = TRUE,
                                     !.failure = IF @ = "none" THEN "upstream" ELSE @]
              ELSE [embedding EXCEPT !.inflight = @ - 1, !.pending = @ \ {j}]
    /\ UNCHANGED <<now, chunkVars, calls, running, document, uiVars, fetched, retrieval, upload>>

\* Promise.all is fulfilled: push the batch's vectors in the batch's order
\* and issue the next batch, or return
EmbeddingsBatchDone ==
    /\ embedding.state = "awaiting"
    /\ ~embedding.rejected
    /\ BatchSettled(embedding)
    /\ LET lo == embedding.i
           n == Cardinality(Batch(embedding, lo))
           batchEmbeddings == PromiseAll(embedding, lo, n)
           pushed == [embedding EXCEPT !.embeddings = @ \o batchEmbeddings]
       IN  embedding' =
               IF lo + BatchSize < Len(embedding.texts)
               THEN IssueBatch(pushed, lo + BatchSize)
               ELSE [pushed EXCEPT !.state = "returned", !.result = pushed.embeddings]
    /\ UNCHANGED <<now, chunkVars, calls, running, document, uiVars, fetched, retrieval, upload>>

\* Promise.all is rejected as soon as one promise is: generateEmbeddings throws
EmbeddingsBatchRejected ==
    /\ embedding.state = "awaiting"
    /\ embedding.rejected
    /\ embedding' = EmbeddingsThrow(embedding)
    /\ UNCHANGED <<now, chunkVars, calls, running, document, uiVars, fetched, retrieval, upload>>

-----------------------------------------------------------------------------
(* The document upload handler *)

\* what the form data may hold: nothing, a file over the size limit, a file
\* that is no PDF, a PDF, a URL, or a text content
Forms == {"none", "large", "notpdf", "pdf", "url", "text"}

UploadContents == {<<"a">>, <<" ">>, ScenarioAText}

\* the sources the handler builds: it passes no chunking options
UploadSources(form) ==
    [type : {form}, content : UploadContents,
     title : IF form = "text" THEN {"T", "Untitled Document"} ELSE {"T"},
     chunkingOptions : {NoOptions}]

UploadIdle ==
    [state |-> "idle", form |-> "", vectors |-> <<>>, upserts |-> 0, stored |-> <<>>,
     status |-> 0, error |-> ""]

\* NextResponse.json(body, { status })
Respond(u, status, error) ==
    [u EXCEPT !.state = "responded", !.status = status, !.error = error]

\* a handler that goes on whatever processDocument returned
ProcessingFailedIgnored(result) == FALSE

\* if (!processingResult.success)
ProcessingFailed(result) == ~result.success

\* chunks.map((chunk, index) => ({ id: chunk.id, values: embeddings[index], metadata }))
Vectors(cs, doc, embeddings) ==
    [index \in 1..Len(cs) |->
        [id |-> cs[index].id,
         values |-> embeddings[index],
         metadata |-> [documentId |-> doc.id, chunkId |-> cs[index].id,
                       documentTitle |-> doc.title, source |-> doc.source,
                       content |-> cs[index].content]]]

\* POST: validateConfig throws, or the handler awaits the form data
UploadPost ==
    /\ upload.state = "idle"
    /\ \/ upload' = Respond(upload, 500, "Internal server error")
       \/ \E form \in Forms : upload' = [upload EXCEPT !.state = "parsed", !.form = form]
    /\ UNCHANGED <<now, chunkVars, calls, running, document, uiVars, fetched, retrieval, embedding>>

\* the form data holds nothing to process, or a file that is refused
UploadRefused ==
    /\ upload.state = "parsed"
    /\ upload.form \in {"none", "large", "notpdf"}
    /\ upload' = Respond(upload, 400,
                         CASE upload.form = "none" ->
                                  "Either file, URL, or text content is required"
                           [] upload.form = "large" -> "File size exceeds maximum limit"
                           [] upload.form = "notpdf" -> "Only PDF files are supported")
    /\ UNCHANGED <<now, chunkVars, calls, running, document, uiVars, fetched, retrieval, embedding>>

\* the handler calls processDocument and awaits it
UploadProcessDocument ==
    /\ upload.state = "parsed"
    /\ upload.form \in {"pdf", "url", "text"}
    /\ running = 0
    /\ calls[1].state = "idle"
    /\ \E src \in UploadSources(upload.form) :
          /\ calls' = [calls EXCEPT ![1] =
                          [state |-> IF src.type = "text" THEN "extracted" ELSE "extracting",
                           source |-> src, startTime |-> now, result |-> NoResult]]
          /\ running' = IF src.type = "text" THEN 1 ELSE 0
    /\ upload' = [upload EXCEPT !.state = "processing"]
    /\ UNCHANGED <<now, chunkVars, document, uiVars, fetched, retrieval, embedding>>

\* processDocument has returned: the handler answers 500 or calls
\* generateEmbeddings with the chunks' contents and awaits it
UploadProcessed ==
    /\ upload.state = "processing"
    /\ calls[1].state = "returned"
    /\ LET result == calls[1].result
       IN  IF ProcessingFailed(result)
           THEN /\ upload' = Respond(upload, 500, result.error)
                /\ UNCHANGED embedding
           ELSE /\ upload' = [upload EXCEPT !.state = "embedding"]
                /\ embedding' = GenerateEmbeddings(
                                    [i \in 1..Len(result.chunks) |-> result.chunks[i].content])
    /\ UNCHANGED <<now, chunkVars, calls, running, document, uiVars, fetched, retrieval>>

\* generateEmbeddings has returned: the vectors are built and upsertVectors
\* is called and awaited
UploadEmbedded ==
    /\ upload.state = "embedding"
    /\ embedding.state = "returned"
    /\ upload' = [upload EXCEPT
                     !.state = "upserting",
                     !.upserts = @ + 1,
                     !.vectors = Vectors(calls[1].result.chunks, calls[1].result.document,
                                         embedding.result)]
    /\ UNCHANGED <<now, chunkVars, calls, running, document, uiVars, fetched, retrieval, embedding>>

\* generateEmbeddings has thrown: the catch block answers 500
UploadEmbeddingFailed ==
    /\ upload.state = "embedding"
    /\ embedding.state = "threw"
    /\ upload' = Respond(upload, 500, "Internal server error")
    /\ UNCHANGED <<now, chunkVars, calls, running, document, uiVars, fetched, retrieval, embedding>>

\* the store has written the vectors: the handler answers with the summary
UpsertSucceeds ==
    /\ upload.state = "upserting"
    /\ upload' = [Respond(upload, 200, "") EXCEPT !.stored = upload.vectors]
    /\ UNCHANGED <<now, chunkVars, calls, running, document, uiVars, fetched, retrieval, embedding>>

\* upsertVectors throws: the catch block answers 500
UpsertFails ==
    /\ upload.state = "upserting"
    /\ upload' = Respond(upload, 500, "Internal server error")
    /\ UNCHANGED <<now, chunkVars, calls, running, document, uiVars, fetched, retrieval, embedding>>

-----------------------------------------------------------------------------
(* Chat storage: the conversations kept in local storage *)

\* Dates are counted in milliseconds, as Date.now() and getTime() give them;
\* JSON.stringify writes a Date with its milliseconds and new Date() reads
\* them back, so a stored date is the number it was written from.  An id is
\* a tuple; generateId() joins Date.now() with a random suffix, which here is
\* the number of ids generated so far: it does not repeat.

\* const MAX_CONVERSATIONS = 50
MAX_CONVERSATIONS == 50

MaxOps == 2

\* conversationId: null
NoId == <<>>

generateId(s) == <<"conv", now, s.generated + 1>>

Conversation(id, messages, createdAt, updatedAt) ==
    [id |-> id, messages |-> messages, createdAt |-> createdAt, updatedAt |-> updatedAt]

\* conversations.findIndex(conv => conv.id === id): -1 when there is none
FindIndex(list, id) ==
    IF \E k \in 1..Len(list) : list[k].id = id
    THEN (CHOOSE k \in 1..Len(list) :
              list[k].id = id /\ \A j \in 1..(k - 1) : list[j].id # id) - 1
    ELSE -1

\* conversations.sort((a, b) => new Date(b.updatedAt).getTime()
\*                              - new Date(a.updatedAt).getTime()):
\* descending by updatedAt, equal dates keep their order (the sort is
\* stable): the conversations of the latest date in their order, then those
\* of the next date, and so on
SortByUpdatedAt(list) ==
    LET dates == {list[i].updatedAt : i \in 1..Len(list)}
        sameDate == [d \in dates |-> SelectSeq(list, LAMBDA conv : conv.updatedAt = d)]
        later == [d \in dates |->
                     Len(SelectSeq(list, LAMBDA conv : conv.updatedAt > d))]
    IN  [r \in 1..Len(list) |->
            LET d == CHOOSE e \in dates : later[e] < r /\ r <= later[e] + Len(sameDate[e])
            IN  sameDate[d][r - later[d]]]

\* a storage that never drops a conversation
KeepAll(list) == list

\* if (length > MAX_CONVERSATIONS) { sort(...); splice(MAX_CONVERSATIONS) }
KeepMostRecent(list) ==
    IF Len(list) > MAX_CONVERSATIONS
    THEN SubSeq(SortByUpdatedAt(list), 1, MAX_CONVERSATIONS)
    ELSE list

\* the call made last: its arguments, what it returned (id for a save, ok
\* for the others), the local storage access that threw, if any, and for a
\* call that wrote: the list it read and the list it had built before the
\* cut to MAX_CONVERSATIONS
NoCall ==
    [op |-> "none", conversationId |-> NoId, messages |-> <<>>, id |-> NoId, ok |-> FALSE,
     before |-> <<>>, merged |-> <<>>, fault |-> "none"]

StorageEmpty == [present |-> FALSE, conversations |-> <<>>, generated |-> 0, ops |-> 0,
                 last |-> NoCall]

\* stored ? JSON.parse(stored) : []
StoredList(s) == IF s.present THEN s.conversations ELSE <<>>

\* getConversation(conversationId): the stored conversation or null (<<>>)
getConversation(s, conversationId) ==
    LET k == FindIndex(StoredList(s), conversationId)
    IN  IF k >= 0 THEN <<StoredList(s)[k + 1]>> ELSE <<>>

\* the conversation literal of saveConversation: createdAt is that of the
\* stored conversation when conversationId names one
SavedConversation(list, conversationId, id, messages) ==
    LET k == FindIndex(list, conversationId)
    IN  Conversation(id, messages,
                     IF conversationId # NoId /\ k >= 0 THEN list[k + 1].createdAt ELSE now,
                     now)

\* update existing or add new conversation
Put(list, conversation) ==
    LET existingIndex == FindIndex(list, conversation.id)
    IN  IF existingIndex >= 0
        THEN [list EXCEPT ![existingIndex + 1] = conversation]
        ELSE Append(list, conversation)

\* importedConversations.forEach(imported => ...), the loop in closed form:
\* a stored conversation is replaced by the last imported one of its id; the
\* imported conversations of other ids are appended where their id comes
\* first in the file, each as the last imported one of its id
MergeConversations(list, imported) ==
    LET stored == {list[i].id : i \in 1..Len(list)}
        named == {imported[k].id : k \in 1..Len(imported)}
        last == [id \in named |->
                    imported[CHOOSE k \in 1..Len(imported) :
                                 /\ imported[k].id = id
                                 /\ \A j \in (k + 1)..Len(imported) : imported[j].id # id]]
        replaced == [i \in 1..Len(list) |->
                        IF list[i].id \in named THEN last[list[i].id] ELSE list[i]]
        positions == [k \in 1..Len(imported) |-> k]
        added == SelectSeq(positions,
                           LAMBDA k : /\ imported[k].id \notin stored
                                      /\ \A j \in 1..(k - 1) : imported[j].id # imported[k].id)
    IN  replaced \o [n \in 1..Len(added) |-> last[imported[added[n]].id]]

\* saveConversation(conversationId, messages): fault names the local storage
\* access that throws ("read": getItem, "write": setItem, "none").  The catch
\* block returns conversationId || generateId(), a second generated id when
\* one had been generated before setItem threw.
saveConversation(s, conversationId, messages, fault) ==
    LET list == StoredList(s)
        id == IF conversationId = NoId THEN generateId(s) ELSE conversationId
        merged == Put(list, SavedConversation(list, conversationId, id, messages))
        call == [op |-> "save", conversationId |-> conversationId, messages |-> messages,
                 id |-> id, ok |-> TRUE, before |-> list, merged |-> merged,
                 fault |-> fault]
        fresh == IF conversationId = NoId THEN 1 ELSE 0
    IN  CASE fault = "read" ->
                 [s EXCEPT !.generated = @ + fresh, !.ops = @ + 1,
                           !.last = [call EXCEPT !.ok = FALSE, !.before = <<>>,
                                                 !.merged = <<>>]]
          [] fault = "write" ->
                 [s EXCEPT !.generated = @ + 2 * fresh, !.ops = @ + 1,
                           !.last = [call EXCEPT
                                        !.ok = FALSE, !.before = <<>>, !.merged = <<>>,
                                        !.id = IF conversationId = NoId
                                               THEN <<"conv", now, s.generated + 2>>
                                               ELSE conversationId]]
          [] OTHER ->
                 [s EXCEPT !.present = TRUE, !.conversations = KeepMostRecent(merged),
                           !.generated = @ + fresh, !.ops = @ + 1, !.last = call]

\* importConversations(jsonData): jsonData.valid tells whether JSON.parse
\* accepts it, jsonData.list is the parsed list
importConversations(s, jsonData, fault) ==
    LET list == StoredList(s)
        merged == MergeConversations(list, jsonData.list)
        call == [NoCall EXCEPT !.op = "import", !.fault = fault]
    IN  IF ~jsonData.valid \/ fault = "read"
        THEN [s EXCEPT !.ops = @ + 1, !.last = call]
        ELSE IF fault = "write"
        THEN [s EXCEPT !.ops = @ + 1, !.last = call]
        ELSE [s EXCEPT !.present = TRUE, !.conversations = KeepMostRecent(merged),
                       !.ops = @ + 1,
                       !.last = [call EXCEPT !.ok = TRUE, !.before = list,
                                             !.merged = merged]]

\* deleteConversation(conversationId)
deleteConversation(s, conversationId, fault) ==
    LET list == StoredList(s)
        filtered == SelectSeq(list, LAMBDA conv : conv.id # conversationId)
        call == [NoCall EXCEPT !.op = "delete", !.conversationId = conversationId,
                               !.fault = fault]
    IN  IF fault # "none" \/ ~s.present \/ Len(filtered) = Len(list)
        THEN [s EXCEPT !.ops = @ + 1, !.last = call]
        ELSE [s EXCEPT !.conversations = filtered, !.ops = @ + 1,
                       !.last = [call EXCEPT !.ok = TRUE, !.before = list,
                                             !.merged = filtered]]

\* clearAllConversations(): removeItem
clearAllConversations(s, fault) ==
    LET call == [NoCall EXCEPT !.op = "clear", !.fault = fault]
    IN  IF fault # "none"
        THEN [s EXCEPT !.ops = @ + 1, !.last = call]
        ELSE [s EXCEPT !.present = FALSE, !.conversations = <<>>, !.ops = @ + 1,
                       !.last = [call EXCEPT !.ok = TRUE]]

(* Inputs of the chat storage *)

Faults == {"none", "read", "write"}

MessageLists == {<<"m1">>, <<"m1", "m2">>}

\* n conversations of another device, all updated at the date t
Bulk(n, t) == [k \in 1..n |-> Conversation(<<"imp", 0, k>>, <<"old">>, 0, t)]

\* n conversations of another device, each updated a millisecond after the
\* one before it
Graded(n) == [k \in 1..n |-> Conversation(<<"imp", 0, k>>, <<"old">>, 0, k)]

\* the files handed to the import: lists around MAX_CONVERSATIONS, dated
\* before and after the clock, a list that names one id twice, and a file
\* that is no JSON
ImportFiles ==
    {[valid |-> TRUE, list |-> l] :
        l \in {Bulk(MAX_CONVERSATIONS, 0), Bulk(MAX_CONVERSATIONS, 9),
               Graded(MAX_CONVERSATIONS + 1),
               <<Conversation(<<"imp", 0, 1>>, <<"old">>, 0, 0),
                 Conversation(<<"imp", 0, 1>>, <<"new">>, 1, 1)>>}}
    \cup {[valid |-> FALSE, list |-> <<>>]}

\* the ids a caller may pass: none, that of an imported conversation, that
\* of the conversation saved first, one that names nothing
CallerIds(s) ==
    {NoId, <<"imp", 0, 1>>, <<"x", 0, 0>>}
    \cup {s.conversations[k].id : k \in {j \in 1..Len(s.conversations) :
                                             s.conversations[j].id[1] = "conv"}}

SaveConversationCall ==
    /\ storage.ops < MaxOps
    /\ \E conversationId \in CallerIds(storage), messages \in MessageLists, fault \in Faults :
          storage' = saveConversation(storage, conversationId, messages, fault)
    /\ UNCHANGED <<now, chunkVars, calls, running, document, fetched, retrieval, embedding,
                   upload, history, chat, component>>

ImportConversationsCall ==
    /\ storage.ops < MaxOps
    /\ \E jsonData \in ImportFiles, fault \in Faults :
          storage' = importConversations(storage, jsonData, fault)
    /\ UNCHANGED <<now, chunkVars, calls, running, document, fetched, retrieval, embedding,
                   upload, history, chat, component>>

DeleteConversationCall ==
    /\ storage.ops < MaxOps
    /\ \E conversationId \in CallerIds(storage) \ {NoId}, fault \in Faults :
          storage' = deleteConversation(storage, conversationId, fault)
    /\ UNCHANGED <<now, chunkVars, calls, running, document, fetched, retrieval, embedding,
                   upload, history, chat, component>>

ClearAllConversationsCall ==
    /\ storage.ops < MaxOps
    /\ \E fault \in Faults : storage' = clearAllConversations(storage, fault)
    /\ UNCHANGED <<now, chunkVars, calls, running, document, fetched, retrieval, embedding,
                   upload, history, chat, component>>

-----------------------------------------------------------------------------
(* useChatHistory: the hook over the chat storage *)

\* The hook is used by one component; an operation runs after the render
\* that followed the one before it, so it sees the current
\* currentConversationId.

\* getConversationSummaries(): the summaries, latest update first; the empty
\* list when local storage cannot be read
getConversationSummaries(s, fault) ==
    IF fault = "read" THEN <<>>
    ELSE LET sorted == SortByUpdatedAt(StoredList(s))
         IN  [k \in 1..Len(sorted) |->
                 [id |-> sorted[k].id, messageCount |-> Len(sorted[k].messages),
                  updatedAt |-> sorted[k].updatedAt]]

\* the state after the mount effect has run loadConversations on the empty
\* storage
HistoryInitial == [currentConversationId |-> NoId, conversations |-> <<>>, isLoading |-> FALSE]

\* if (currentConversationId === id) setCurrentConversationId(null)
CurrentAfterDelete(current, id) == IF current = id THEN NoId ELSE current

\* saveCurrentConversation(messages)
SaveCurrentConversation ==
    /\ storage.ops < MaxOps
    /\ \E messages \in MessageLists, fault \in Faults :
          LET saved == saveConversation(storage, history.currentConversationId, messages,
                                        fault)
          IN  /\ storage' = saved
              /\ history' = [history EXCEPT
                                !.currentConversationId = saved.last.id,
                                !.conversations = getConversationSummaries(saved, fault)]
    /\ UNCHANGED <<now, chunkVars, calls, running, document, fetched, retrieval, embedding,
                   upload, chat, component>>

\* deleteConversation(id) of the hook
HandleDeleteConversation ==
    /\ storage.ops < MaxOps
    /\ \E id \in (CallerIds(storage) \cup {history.currentConversationId}) \ {NoId},
          fault \in Faults :
          LET deleted == deleteConversation(storage, id, fault)
          IN  /\ storage' = deleted
              /\ history' =
                     IF deleted.last.ok
                     THEN [history EXCEPT
                              !.conversations = getConversationSummaries(deleted, fault),
                              !.currentConversationId = CurrentAfterDelete(@, id)]
                     ELSE history
    /\ UNCHANGED <<now, chunkVars, calls, running, document, fetched, retrieval, embedding,
                   upload, chat, component>>

\* clearAllConversations() of the hook
HandleClearAllConversations ==
    /\ storage.ops < MaxOps
    /\ \E fault \in Faults :
          LET cleared == clearAllConversations(storage, fault)
          IN  /\ storage' = cleared
              /\ history' =
                     IF cleared.last.ok
                     THEN [history EXCEPT !.conversations = <<>>,
                                          !.currentConversationId = NoId]
                     ELSE history
    /\ UNCHANGED <<now, chunkVars, calls, running, document, fetched, retrieval, embedding,
                   upload, chat, component>>

\* importConversations(jsonData) of the hook
HandleImportConversations ==
    /\ storage.ops < MaxOps
    /\ \E jsonData \in ImportFiles, fault \in Faults :
          LET imported == importConversations(storage, jsonData, fault)
          IN  /\ storage' = imported
              /\ history' =
                     IF imported.last.ok
                     THEN [history EXCEPT
                              !.conversations = getConversationSummaries(imported, fault)]
                     ELSE history
    /\ UNCHANGED <<now, chunkVars, calls, running, document, fetched, retrieval, embedding,
                   upload, chat, component>>

\* createNewConversation()
CreateNewConversation ==
    /\ history.currentConversationId # NoId
    /\ history' = [history EXCEPT !.currentConversationId = NoId]
    /\ UNCHANGED <<now, chunkVars, calls, running, document, fetched, retrieval, embedding,
                   upload, storage, chat, component>>

-----------------------------------------------------------------------------
(* useChatStore: the chat store *)

MaxMessages == 2

\* error: null
Null == "<null>"

\* the error texts handed to setError: error.message of an Error thrown
\* without a message, and the text of the send failure
ErrorTexts == {"", "Failed to send message. Please try again."}

AIModes == {"tools", "agents", "auto"}

AIProviders == {"openai", "anthropic"}

Contents == {"hello", "edited"}

ChatInitial ==
    [messages |-> <<>>, currentMode |-> "tools", currentProvider |-> "openai",
     isLoading |-> FALSE, error |-> Null, showDeveloperView |-> FALSE, generated |-> 0]

\* the ids of the messages added so far
MessageIds == {<<"msg", n>> : n \in 1..MaxMessages}

AddMessage ==
    /\ chat.generated < MaxMessages
    /\ \E content \in Contents :
          chat' = [chat EXCEPT
                      !.messages = Append(@, [id |-> <<"msg", chat.generated + 1>>,
                                              content |-> content]),
                      !.generated = @ + 1]
    /\ UNCHANGED <<now, chunkVars, calls, running, document, fetched, retrieval, embedding,
                   upload, storage, history, component>>

UpdateMessage ==
    /\ \E id \in MessageIds, content \in Contents :
          chat' = [chat EXCEPT
                      !.messages = [k \in 1..Len(@) |->
                                       IF @[k].id = id THEN [@[k] EXCEPT !.content = content]
                                       ELSE @[k]]]
    /\ UNCHANGED <<now, chunkVars, calls, running, document, fetched, retrieval, embedding,
                   upload, storage, history, component>>

RemoveMessage ==
    /\ \E id \in MessageIds :
          chat' = [chat EXCEPT !.messages = SelectSeq(@, LAMBDA msg : msg.id # id)]
    /\ UNCHANGED <<now, chunkVars, calls, running, document, fetched, retrieval, embedding,
                   upload, storage, history, component>>

ClearMessages ==
    /\ chat' = [chat EXCEPT !.messages = <<>>, !.error = Null]
    /\ UNCHANGED <<now, chunkVars, calls, running, document, fetched, retrieval, embedding,
                   upload, storage, history, component>>

SetMode ==
    /\ \E mode \in AIModes : chat' = [chat EXCEPT !.currentMode = mode]
    /\ UNCHANGED <<now, chunkVars, calls, running, document, fetched, retrieval, embedding,
                   upload, storage, history, component>>

SetProvider ==
    /\ \E provider \in AIProviders : chat' = [chat EXCEPT !.currentProvider = provider]
    /\ UNCHANGED <<now, chunkVars, calls, running, document, fetched, retrieval, embedding,
                   upload, storage, history, component>>

\* state.isLoading = loading; if (loading) state.error = null
SetLoading ==
    /\ \E loading \in BOOLEAN :
          chat' = [chat EXCEPT !.isLoading = loading,
                               !.error = IF loading THEN Null ELSE @]
    /\ UNCHANGED <<now, chunkVars, calls, running, document, fetched, retrieval, embedding,
                   upload, storage, history, component>>

\* state.error = error; if (error) state.isLoading = false: null and the
\* empty string are falsy
SetError ==
    /\ \E error \in ErrorTexts \cup {Null} :
          chat' = [chat EXCEPT !.error = error,
                               !.isLoading = IF error \notin {Null, ""} THEN FALSE ELSE @]
    /\ UNCHANGED <<now, chunkVars, calls, running, document, fetched, retrieval, embedding,
                   upload, storage, history, component>>

ToggleDeveloperView ==
    /\ chat' = [chat EXCEPT !.showDeveloperView = ~@]
    /\ UNCHANGED <<now, chunkVars, calls, running, document, fetched, retrieval, embedding,
                   upload, storage, history, component>>

-----------------------------------------------------------------------------
(* DocumentUpload: the upload component *)

MaxUploads == 2

\* what the user types into the url, text and title fields
FieldValues == {<<>>, <<" ">>, <<"u">>}

\* useState initial values; `started` numbers the uploadDocument calls,
\* `shown` is the call that last set uploadState, `requests` the calls
\* awaiting fetch or response.json(), `timers` the calls whose reset timer
\* is pending, `reset` the call whose timer fired last
ComponentIdle ==
    [uploadState |-> [status |-> "idle", progress |-> 0],
     url |-> <<>>, textContent |-> <<>>, textTitle |-> <<>>,
     started |-> 0, shown |-> 0, requests |-> {}, timers |-> {}, reset |-> 0]

isUploading == component.uploadState.status \in {"uploading", "processing"}

\* uploadDocument up to its first await
uploadDocument ==
    /\ component.started < MaxUploads
    /\ component' = [component EXCEPT
                        !.uploadState = [status |-> "uploading", progress |-> 20],
                        !.started = @ + 1,
                        !.shown = component.started + 1,
                        !.requests = @ \cup {[id |-> component.started + 1,
                                               stage |-> "fetch"]}]

\* a file is dropped on the dropzone, which is disabled while uploading
OnDrop ==
    /\ ~isUploading
    /\ uploadDocument
    /\ UNCHANGED <<now, chunkVars, calls, running, document, fetched, retrieval, embedding,
                   upload, storage, history, chat>>

\* the url button, disabled while uploading or while the url is blank
HandleUrlUpload ==
    /\ ~isUploading
    /\ Trim(component.url) # <<>>
    /\ uploadDocument
    /\ UNCHANGED <<now, chunkVars, calls, running, document, fetched, retrieval, embedding,
                   upload, storage, history, chat>>

HandleTextUpload ==
    /\ ~isUploading
    /\ Trim(component.textContent) # <<>>
    /\ uploadDocument
    /\ UNCHANGED <<now, chunkVars, calls, running, document, fetched, retrieval, embedding,
                   upload, storage, history, chat>>

\* the input fields, disabled while uploading
SetUrl ==
    /\ ~isUploading
    /\ \E v \in FieldValues : component' = [component EXCEPT !.url = v]
    /\ UNCHANGED <<now, chunkVars, calls, running, document, fetched, retrieval, embedding,
                   upload, storage, history, chat>>

SetTextContent ==
    /\ ~isUploading
    /\ \E v \in FieldValues : component' = [component EXCEPT !.textContent = v]
    /\ UNCHANGED <<now, chunkVars, calls, running, document, fetched, retrieval, embedding,
                   upload, storage, history, chat>>

SetTextTitle ==
    /\ ~isUploading
    /\ \E v \in FieldValues : component' = [component EXCEPT !.textTitle = v]
    /\ UNCHANGED <<now, chunkVars, calls, running, document, fetched, retrieval, embedding,
                   upload, storage, history, chat>>

\* fetch resolves with response.ok
ResponseOk ==
    /\ \E r \in component.requests :
          /\ r.stage = "fetch"
          /\ component' = [component EXCEPT
                              !.uploadState = [status |-> "processing", progress |-> 60],
                              !.shown = r.id,
                              !.requests = (@ \ {r}) \cup {[r EXCEPT !.stage = "json"]}]
    /\ UNCHANGED <<now, chunkVars, calls, running, document, fetched, retrieval, embedding,
                   upload, storage, history, chat>>

\* fetch rejects, the response is not ok, or response.json() rejects
UploadFails ==
    /\ \E r \in component.requests :
          component' = [component EXCEPT
                           !.uploadState = [status |-> "error", progress |-> 0],
                           !.shown = r.id,
                           !.requests = @ \ {r}]
    /\ UNCHANGED <<now, chunkVars, calls, running, document, fetched, retrieval, embedding,
                   upload, storage, history, chat>>

\* response.json() resolves: success is shown and the reset timer is armed
JsonResolves ==
    /\ \E r \in component.requests :
          /\ r.stage = "json"
          /\ component' = [component EXCEPT
                              !.uploadState = [status |-> "success", progress |-> 100],
                              !.shown = r.id,
                              !.requests = @ \ {r},
                              !.timers = @ \cup {r.id}]
    /\ UNCHANGED <<now, chunkVars, calls, running, document, fetched, retrieval, embedding,
                   upload, storage, history, chat>>

\* five seconds after a success its timer fires
ResetTimerFires ==
    /\ \E id \in component.timers :
          component' = [component EXCEPT
                           !.uploadState = [status |-> "idle", progress |-> 0],
                           !.url = <<>>, !.textContent = <<>>, !.textTitle = <<>>,
                           !.timers = @ \ {id},
                           !.reset = id]
    /\ UNCHANGED <<now, chunkVars, calls, running, document, fetched, retrieval, embedding,
                   upload, storage, history, chat>>

-----------------------------------------------------------------------------
(* The collaborators at rest *)

ClientsIdle ==
    /\ fetched = FetchIdle
    /\ retrieval = RetrievalIdle
    /\ embedding = EmbeddingIdle
    /\ upload = UploadIdle
    /\ storage = StorageEmpty
    /\ history = HistoryInitial
    /\ chat = ChatInitial
    /\ component = ComponentIdle

-----------------------------------------------------------------------------
(* Specification of chunkText called on its own *)

Init ==
    /\ now = 0
    /\ \/ /\ text \in SmallTexts
          /\ options \in SmallOptions \cup {NoOptions}
       \/ /\ text = ScenarioAText
          /\ options = NoOptions
       \/ /\ text \in BoundaryTexts
          /\ options \in SmallOptions
    /\ pc = "call"
    /\ cleanText = <<>>
    /\ startIndex = 0
    /\ chunkIndex = 0
    /\ chunks = <<>>
    /\ iter = 0
    /\ calls = NoCalls
    /\ running = 0
    /\ document = <<>>
    /\ ClientsIdle

Next == ChunkTextEnter \/ ChunkTextLoop

Spec == Init /\ [][Next]_vars

-----------------------------------------------------------------------------
(* Specification of the processDocument calls *)

InitDoc ==
    /\ now = 0
    /\ text = <<>>
    /\ options = NoOptions
    /\ pc = "idle"
    /\ cleanText = <<>>
    /\ startIndex = 0
    /\ chunkIndex = 0
    /\ chunks = <<>>
    /\ iter = 0
    /\ calls = NoCalls
    /\ running = 0
    /\ document = <<>>
    /\ ClientsIdle

NextDoc ==
    \/ \E p \in 1..MaxCalls :
          \/ ProcessDocumentCall(p)
          \/ ExtractSucceeds(p)
          \/ ExtractFails(p)
          \/ CreateDocument(p)
          \/ ProcessDocumentReturn(p)
          \/ ProcessDocumentCatch(p)
    \/ ChunkTextEnter
    \/ ChunkTextLoop
    \/ Tick

SpecDoc == InitDoc /\ [][NextDoc]_vars

-----------------------------------------------------------------------------
(* Specification of a processURL call *)

InitUrl == InitDoc

NextUrl == ProcessURLCall \/ FetchFails \/ FetchResponds \/ ReadBody \/ ReadBodyFails

SpecUrl == InitUrl /\ [][NextUrl]_vars

-----------------------------------------------------------------------------
(* Specification of a retrieval *)

InitRetrieval == InitDoc

NextRetrieval ==
    \/ RetrieveDocsCall
    \/ RetrieveDocsEmbedded
    \/ RetrieveDocsEmbedFails
    \/ QueryVectorsCall
    \/ QueryStoreResponds
    \/ QueryStoreFails

SpecRetrieval == InitRetrieval /\ [][NextRetrieval]_vars

-----------------------------------------------------------------------------
(* Specification of a batch embedding *)

InitEmbed == InitDoc

NextEmbed ==
    \/ GenerateEmbeddingsCall
    \/ EmbedRequestCompletes
    \/ EmbedRequestFails
    \/ EmbeddingsBatchDone
    \/ EmbeddingsBatchRejected

SpecEmbed == InitEmbed /\ [][NextEmbed]_vars

-----------------------------------------------------------------------------
(* Specification of an upload request *)

InitUpload == InitDoc

NextUpload ==
    \/ UploadPost
    \/ UploadRefused
    \/ UploadProcessDocument
    \/ ExtractSucceeds(1)
    \/ ExtractFails(1)
    \/ CreateDocument(1)
    \/ ChunkTextEnter
    \/ ChunkTextLoop
    \/ ProcessDocumentReturn(1)
    \/ UploadProcessed
    \/ EmbedRequestCompletes
    \/ EmbedRequestFails
    \/ EmbeddingsBatchDone
    \/ EmbeddingsBatchRejected
    \/ UploadEmbedded
    \/ UploadEmbeddingFailed
    \/ UpsertSucceeds
    \/ UpsertFails

SpecUpload == InitUpload /\ [][NextUpload]_vars

-----------------------------------------------------------------------------
(* Specification of the chat storage *)

InitStorage == InitDoc

NextStorage ==
    \/ SaveConversationCall
    \/ ImportConversationsCall
    \/ DeleteConversationCall
    \/ ClearAllConversationsCall
    \/ Tick

SpecStorage == InitStorage /\ [][NextStorage]_vars

-----------------------------------------------------------------------------
(* Specification of the chat history hook *)

InitHistory == InitDoc

NextHistory ==
    \/ SaveCurrentConversation
    \/ HandleDeleteConversation
    \/ HandleClearAllConversations
    \/ HandleImportConversations
    \/ CreateNewConversation
    \/ Tick

SpecHistory == InitHistory /\ [][NextHistory]_vars

-----------------------------------------------------------------------------
(* Specification of the chat store *)

InitChat == InitDoc

NextChat ==
    \/ AddMessage
    \/ UpdateMessage
    \/ RemoveMessage
    \/ ClearMessages
    \/ SetMode
    \/ SetProvider
    \/ SetLoading
    \/ SetError
    \/ ToggleDeveloperView

SpecChat == InitChat /\ [][NextChat]_vars

-----------------------------------------------------------------------------
(* Specification of the upload component *)

InitComponent == InitDoc

NextComponent ==
    \/ OnDrop
    \/ HandleUrlUpload
    \/ HandleTextUpload
    \/ SetUrl
    \/ SetTextContent
    \/ SetTextTitle
    \/ ResponseOk
    \/ UploadFails
    \/ JsonResolves
    \/ ResetTimerFires

SpecComponent == InitComponent /\ [][NextComponent]_vars

-----------------------------------------------------------------------------
(* Properties of chunkText *)

\* chunkText has normalized a non-blank text
Normalized == pc \in {"loop", "done"} /\ cleanText # <<>>

\* the call took the scan loop: the normalized text is longer than chunkSize
MultiPath == Normalized /\ ~IsSingleChunk(cleanText, opts)

ChunkIds(cs) == {cs[k].id : k \in 1..Len(cs)}

\* C1: chunkText terminates for every non-blank text and every configuration
\* (chunkOverlap >= chunkSize and minChunkSize = 0 included): startIndex
\* strictly advances on every iteration of the scan loop that does not stop.
C1_StartIndexAdvances ==
    [][(pc = "loop" /\ pc' = "loop") => startIndex' > startIndex]_vars

\* C2: on the multi-chunk path every emitted chunk's content has at most
\* chunkSize characters.
C2_ContentWithinChunkSize ==
    MultiPath => \A k \in 1..Len(chunks) : Len(chunks[k].content) <= opts.chunkSize

\* C3: when chunkText has returned, every non-whitespace character of the
\* normalized text lies in the [startIndex, endIndex) range of an emitted chunk.
C3_NoContentLost ==
    (pc = "done" /\ Normalized) =>
        \A i \in 1..Len(cleanText) :
            cleanText[i] \notin Whitespace =>
                \E k \in 1..Len(chunks) :
                    chunks[k].startIndex < i /\ i <= chunks[k].endIndex

\* C4: every emitted chunk has 0 <= startIndex < endIndex <= length of the text
\* passed to chunkText, and its content is that text's slice
\* [startIndex, endIndex), trimmed.
C4_OffsetsIntoOriginalText ==
    pc \in {"loop", "done"} =>
        \A k \in 1..Len(chunks) :
            /\ 0 <= chunks[k].startIndex
            /\ chunks[k].startIndex < chunks[k].endIndex
            /\ chunks[k].endIndex <= Len(text)
            /\ chunks[k].content = Trim(Slice(text, chunks[k].startIndex, chunks[k].endIndex))

C6_MinChunkSize ==
    MultiPath => \A k \in 1..Len(chunks) : Len(chunks[k].content) >= opts.minChunkSize

\* a scan that emitted a chunk of exactly minChunkSize characters and
\* discarded another window
C6_Witness ==
    /\ pc = "done"
    /\ MultiPath
    /\ opts.minChunkSize >= 1
    /\ iter > Len(chunks)
    /\ \E k \in 1..Len(chunks) : Len(chunks[k].content) = opts.minChunkSize

\* C7: a normalized text T of at most chunkSize characters yields exactly one
\* chunk, with index 0, startIndex 0, endIndex length(T) and content T
\* trimmed, whatever minChunkSize is.  (A normalized text exists only for a
\* non-blank input: blank input returns before normalization.)
C7_SingleChunk ==
    (pc = "done" /\ Normalized /\ Len(cleanText) <= opts.chunkSize) =>
        /\ Len(chunks) = 1
        /\ chunks[1].index = 0
        /\ chunks[1].startIndex = 0
        /\ chunks[1].endIndex = Len(cleanText)
        /\ chunks[1].content = Trim(cleanText)

\* a short-circuited text that normalization changed, of exactly chunkSize
\* characters and shorter than minChunkSize
C7_Witness ==
    /\ pc = "done"
    /\ Normalized
    /\ Len(cleanText) = opts.chunkSize
    /\ Len(cleanText) < opts.minChunkSize
    /\ cleanText # text
    /\ Len(chunks) = 1

\* C8: a normalized text one character longer than chunkSize yields at least
\* two chunks, one of exactly chunkSize characters yields exactly one chunk.
C8_BoundaryChunkCounts ==
    (pc = "done" /\ Normalized) =>
        /\ Len(cleanText) = opts.chunkSize + 1 => Len(chunks) >= 2
        /\ Len(cleanText) = opts.chunkSize => Len(chunks) = 1

IsScenarioA ==
    /\ Len(text) = Len(ScenarioAText)
    /\ text = ScenarioAText
    /\ opts = DEFAULT_CHUNKING_OPTIONS

\* the window of chunk c ends right after a paragraph break
EndsAfterParagraphBreak(c) ==
    /\ c.endIndex >= 2
    /\ cleanText[c.endIndex - 1] = "\n"
    /\ cleanText[c.endIndex] = "\n"

Overlapping(cs) == \A k \in 2..Len(cs) : cs[k].startIndex < cs[k - 1].endIndex

\* C9 as stated: Scenario A yields exactly 3 chunks, each ending at a
\* paragraph boundary, each later chunk starting before the previous one ends.
C9_ScenarioAThreeChunks ==
    (IsScenarioA /\ pc = "done") =>
        /\ Len(chunks) = 3
        /\ \A k \in 1..Len(chunks) : EndsAfterParagraphBreak(chunks[k])
        /\ Overlapping(chunks)

\* C9 amended: Scenario A yields exactly 6 chunks; the first three end right
\* after a paragraph break, the last three end at the end of the text; each
\* later chunk starts before the previous one ends.
C9_ScenarioASixChunks ==
    (IsScenarioA /\ pc = "done") =>
        /\ Len(chunks) = 6
        /\ \A k \in 1..3 : EndsAfterParagraphBreak(chunks[k])
        /\ \A k \in 4..6 : chunks[k].endIndex = Len(cleanText)
        /\ Overlapping(chunks)

C9_Witness == IsScenarioA /\ pc = "done" /\ Len(chunks) = 6 /\ iter = 6

-----------------------------------------------------------------------------
(* Properties of processDocument *)

Succeeded(p) == calls[p].state = "returned" /\ calls[p].result.success

\* C10: any two processDocument calls have different document ids and no
\* chunk id in common.
C10_UniqueIds ==
    \A p, q \in 1..MaxCalls :
        (p # q /\ Succeeded(p) /\ Succeeded(q)) =>
            /\ calls[p].result.document.id # calls[q].result.document.id
            /\ ChunkIds(calls[p].result.chunks) \cap ChunkIds(calls[q].result.chunks) = {}

\* C11: processDocument never throws; when extraction or chunking throws it
\* returns success = false with an error message, an empty chunk list and a
\* document without any field (no id, status or content).
C11_FailureResultIsEmpty ==
    /\ pc = "threw" => (running # 0 /\ calls[running].state = "chunking")
    /\ \A p \in 1..MaxCalls :
          (calls[p].state = "returned" /\ ~calls[p].result.success) =>
              /\ calls[p].result.document = <<>>
              /\ calls[p].result.chunks = <<>>
              /\ calls[p].result.error # ""

\* a call whose chunking threw after the document had been created, and a
\* call whose extraction threw
C11_Witness ==
    \E p, q \in 1..MaxCalls :
        /\ calls[p].state = "returned" /\ ~calls[p].result.success
        /\ calls[p].source.content = Undefined
        /\ calls[q].state = "returned" /\ ~calls[q].result.success
        /\ calls[q].source.type \in {"pdf", "url"}

\* C12: a successful result has document.status 'completed', chunkCount equal
\* to the number of returned chunks, and every returned chunk carries the
\* document's id and title.
C12_SuccessResultConsistent ==
    \A p \in 1..MaxCalls :
        Succeeded(p) =>
            LET r == calls[p].result
            IN  /\ r.document.status = "completed"
                /\ r.document.metadata.chunkCount = Len(r.chunks)
                /\ \A k \in 1..Len(r.chunks) :
                      /\ r.chunks[k].documentId = r.document.id
                      /\ r.chunks[k].metadata.documentTitle = r.document.title

C12_Witness == \E p \in 1..MaxCalls : Succeeded(p) /\ Len(calls[p].result.chunks) >= 2

\* a text of whitespace characters only, the empty text included
WhitespaceOnly(t) == \A i \in 1..Len(t) : t[i] \in Whitespace

\* C13: blank input is no error: chunkText returns the empty list, and
\* processDocument on a literal source with blank content returns success
\* with zero chunks and chunkCount 0.
C13_BlankIsNoError ==
    /\ (pc \in {"done", "threw"} /\ WhitespaceOnly(text)) => (pc = "done" /\ chunks = <<>>)
    /\ \A p \in 1..MaxCalls :
          (calls[p].state = "returned" /\ calls[p].source.type = "text"
             /\ WhitespaceOnly(calls[p].source.content)) =>
              /\ calls[p].result.success
              /\ calls[p].result.chunks = <<>>
              /\ calls[p].result.document.metadata.chunkCount = 0

C13_Witness ==
    \E p \in 1..MaxCalls :
        /\ calls[p].state = "returned"
        /\ calls[p].source.type = "text"
        /\ WhitespaceOnly(calls[p].source.content)
        /\ Len(calls[p].source.content) > 0
        /\ calls[p].result.success

-----------------------------------------------------------------------------
(* Properties of processURL *)

\* the media type a content-type header declares: what precedes its parameters
MediaType(contentType) ==
    IF \E i \in 1..Len(contentType) : contentType[i] = ";"
    THEN SubSeq(contentType, 1,
                (CHOOSE i \in 1..Len(contentType) :
                     contentType[i] = ";" /\ \A m \in 1..(i - 1) : contentType[m] # ";") - 1)
    ELSE contentType

\* C14: the outcome of the remote extractor is determined by the response
\* status and the declared content type: a non-successful status fails;
\* text/html yields the tag-stripped body and a title that defaults to
\* "Untitled"; another text type yields the body verbatim; any other content
\* type, or none, fails as unsupported and yields no content.
C14_OutcomeByStatusAndType ==
    LET r == fetched.response
        type == MediaType(r.contentType)
        declaresHtml == type = <<"text/", "html">>
        declaresText == Len(type) >= 1 /\ type[1] = "text/"
    IN  (fetched.state \in {"returned", "threw"}
           /\ fetched.error \notin {"fetch failed", "read failed"}) =>
            /\ ~r.ok => fetched.state = "threw"
            /\ (r.ok /\ declaresHtml) =>
                  /\ fetched.state = "returned"
                  /\ fetched.content = StripHtml(r.body)
                  /\ fetched.title = TitleOrUntitled(r.body)
            /\ (r.ok /\ declaresText /\ ~declaresHtml) =>
                  /\ fetched.state = "returned"
                  /\ fetched.content = r.body
            /\ (r.ok /\ ~declaresText) =>
                  /\ fetched.state = "threw"
                  /\ fetched.error = "Unsupported content type"
                  /\ fetched.content = <<>>

-----------------------------------------------------------------------------
(* Properties of the retrieval *)

\* C15: for every topK >= 1 and every threshold in [0,1] the caller supplies
\* (0 included), queryVectors returns exactly the store's matches whose score
\* is >= that threshold, in the store's order, and never more than topK.
C15_FilterBySuppliedThreshold ==
    (retrieval.state = "done" /\ retrieval.failure = "none"
       /\ retrieval.queryTopK # None /\ retrieval.queryThreshold # None) =>
        /\ retrieval.filtered =
               SelectSeq(retrieval.matches, LAMBDA score : score >= retrieval.queryThreshold)
        /\ Len(retrieval.filtered) <= retrieval.queryTopK

\* C16: every result the retrieve_docs tool returns has a score >= the
\* threshold argument the caller passed (0.3 when none was passed).
C16_ToolEnforcesThreshold ==
    (retrieval.state = "done" /\ retrieval.caller = "tool") =>
        \A i \in 1..Len(retrieval.results) :
            retrieval.results[i] >= Default(retrieval.threshold, ToolDefaultThreshold)

\* C17: a retrieval whose embedding or store call fails is told apart from a
\* retrieval without matches: the tool returns an error-flagged result with a
\* message in the first case and an unflagged result in the second;
\* queryVectors throws in the first case and returns in the second.
C17_FailureDistinctFromEmpty ==
    retrieval.state = "done" =>
        /\ retrieval.caller = "tool" =>
              /\ retrieval.outcome = "returned"
              /\ retrieval.flagged <=> retrieval.failure # "none"
              /\ retrieval.flagged => (retrieval.results = <<>> /\ retrieval.message # "")
        /\ retrieval.caller = "direct" =>
              /\ retrieval.outcome = "threw" <=> retrieval.failure # "none"
              /\ retrieval.outcome = "returned" <=> retrieval.failure = "none"

\* a tool retrieval whose store query failed
C17_Witness ==
    /\ retrieval.state = "done"
    /\ retrieval.caller = "tool"
    /\ retrieval.failure = "store"
    /\ retrieval.flagged
    /\ retrieval.results = <<>>

-----------------------------------------------------------------------------
(* Properties of the batch embedding *)

\* C18: generateEmbeddings issues the requests of consecutive sub-batches of
\* at most 100 texts, and issues no request of the next sub-batch before
\* every request of the current one has completed: at most 100 requests are
\* in flight at any time.
C18_BatchesAreSequential ==
    [][/\ embedding'.inflight <= BatchSize
       /\ embedding'.batches > embedding.batches =>
             /\ embedding.inflight = 0
             /\ embedding'.issued - embedding.issued <= BatchSize
             /\ embedding'.i = embedding.batches * BatchSize
             /\ Len(embedding'.embeddings) = embedding'.i]_vars

\* the second sub-batch is in flight
C18_Witness ==
    /\ embedding.state = "awaiting"
    /\ embedding.batches = 2
    /\ embedding.inflight > 0

\* C19: batch embedding is all-or-nothing: once the embedding of one text
\* has failed (upstream, or the text is blank) generateEmbeddings does not
\* return but throws, hands back no vector, and issues no further sub-batch;
\* when it returns, it returns one vector per text.
C19_AllOrNothing ==
    [][/\ embedding.failure # "none" =>
             /\ embedding'.batches = embedding.batches
             /\ embedding'.issued = embedding.issued
             /\ embedding'.state \in {"awaiting", "threw"}
       /\ embedding'.state = "threw" =>
             (embedding'.failure # "none" /\ embedding'.result = <<>>)
       /\ embedding'.state = "returned" =>
             (embedding'.failure = "none"
                 /\ Len(embedding'.result) = Len(embedding'.texts))]_vars

\* a blank text in the first sub-batch made the call throw although a second
\* sub-batch was left
C19_Witness ==
    /\ embedding.state = "threw"
    /\ embedding.failure = "blank"
    /\ embedding.batches = 1
    /\ Len(embedding.texts) > BatchSize
    /\ embedding.result = <<>>

-----------------------------------------------------------------------------
(* Properties of the upload handler *)

\* C20: the upload handler runs extraction/chunking, then embedding, then
\* the upsert: the upsert is invoked at most once per request and only after
\* processDocument succeeded and every chunk got its embedding; when
\* processing or an embedding fails nothing is written to the store and the
\* response is an error.
C20_UploadStagesInOrder ==
    LET result == calls[1].result
        processed == calls[1].state = "returned" /\ result.success
    IN  /\ upload.upserts <= 1
        /\ embedding.state # "idle" => processed
        /\ upload.upserts = 1 =>
              /\ processed
              /\ embedding.state = "returned"
              /\ Len(upload.vectors) = Len(result.chunks)
              /\ \A i \in 1..Len(result.chunks) :
                    /\ upload.vectors[i].id = result.chunks[i].id
                    /\ upload.vectors[i].values = Embed(Truncate(result.chunks[i].content))
        /\ upload.stored # <<>> => (upload.upserts = 1 /\ upload.stored = upload.vectors)
        /\ ((calls[1].state = "returned" /\ ~result.success) \/ embedding.failure # "none") =>
              /\ upload.upserts = 0
              /\ upload.stored = <<>>
              /\ upload.state = "responded" => upload.status = 500

\* an upload of several chunks was embedded, upserted and answered
C20_Witness ==
    /\ upload.state = "responded"
    /\ upload.status = 200
    /\ upload.upserts = 1
    /\ Len(upload.stored) > 1
    /\ Len(upload.stored) = Len(calls[1].result.chunks)

-----------------------------------------------------------------------------
(* Properties of the chat storage *)

\* C21: after any sequence of saveConversation, importConversations,
\* deleteConversation and clearAllConversations calls from empty storage the
\* stored list never holds more than 50 conversations.
C21_AtMostMaxConversations == Len(storage.conversations) <= MAX_CONVERSATIONS

\* a call has cut a longer list down to 50
C21_Witness ==
    /\ Len(storage.last.merged) > MAX_CONVERSATIONS
    /\ storage.last.ok
    /\ Len(storage.conversations) = MAX_CONVERSATIONS

\* the conversations a call that cut the list has dropped
Evicted ==
    {storage.last.merged[k] : k \in 1..Len(storage.last.merged)}
    \ {storage.conversations[k] : k \in 1..Len(storage.conversations)}

\* the last call was a save or an import that cut the list to 50
CutToMax ==
    /\ storage.last.op \in {"save", "import"}
    /\ storage.last.ok
    /\ Len(storage.last.merged) > MAX_CONVERSATIONS

\* C22: when a save or import exceeds 50 conversations, every retained
\* conversation has an updatedAt >= that of every dropped one, and the
\* conversation the triggering saveConversation wrote is itself retained.
C22_OldestEvictedSavedRetained ==
    CutToMax =>
        /\ \A k \in 1..Len(storage.conversations) : \A e \in Evicted :
              storage.conversations[k].updatedAt >= e.updatedAt
        /\ storage.last.op = "save" => getConversation(storage, storage.last.id) # <<>>

\* C23: the id saveConversation returns names a stored conversation that
\* holds the messages saved, also when a local storage access throws.
C23_ReturnedIdIsStored ==
    storage.last.op = "save" =>
        LET found == getConversation(storage, storage.last.id)
        IN  /\ found # <<>>
            /\ found[1].messages = storage.last.messages

\* C29: no two stored conversations share an id: a save with a stored id
\* replaces that entry in place and keeps its createdAt, a save with a null
\* id adds exactly one new entry, an import replaces the entries whose id it
\* names instead of duplicating them.
C29_IdsUnique ==
    LET list == storage.conversations
        call == storage.last
        k == FindIndex(call.before, call.conversationId)
    IN  /\ \A i, j \in 1..Len(list) : list[i].id = list[j].id => i = j
        /\ (call.op = "save" /\ call.ok /\ k >= 0) =>
              /\ Len(list) = Len(call.before)
              /\ list[k + 1].id = call.conversationId
              /\ list[k + 1].messages = call.messages
              /\ list[k + 1].createdAt = call.before[k + 1].createdAt
              /\ \A i \in 1..Len(list) : i # k + 1 => list[i] = call.before[i]
        /\ (call.op = "save" /\ call.ok /\ call.conversationId = NoId) =>
              /\ FindIndex(call.before, call.id) < 0
              /\ Cardinality({i \in 1..Len(list) : list[i].id = call.id}) = 1
        /\ (call.op = "import" /\ call.ok) =>
              \A i \in 1..Len(call.before) :
                  Cardinality({j \in 1..Len(call.merged) :
                                   call.merged[j].id = call.before[i].id}) = 1

-----------------------------------------------------------------------------
(* Properties of the chat history hook *)

\* C27: after any sequence of operations of the hook, currentConversationId
\* is null or the id of a conversation present in storage.
C27_CurrentConversationStored ==
    \/ history.currentConversationId = NoId
    \/ getConversation(storage, history.currentConversationId) # <<>>

-----------------------------------------------------------------------------
(* Properties of the chat store *)

\* C28: after any sequence of actions of the chat store, isLoading is never
\* true while error is non-null.
C28_NotLoadingWithError == ~(chat.isLoading /\ chat.error # Null)

-----------------------------------------------------------------------------
(* Determinism and the window end of chunkText *)

\* what chunkText computes from the text and the options alone
Computed(c) ==
    [content |-> c.content, index |-> c.index, startIndex |-> c.startIndex,
     endIndex |-> c.endIndex, wordCount |-> c.metadata.wordCount,
     charCount |-> c.metadata.charCount]

BreaksUpTo(last) ==
    {p \in 0..last : p + 2 <= Len(cleanText)
                        /\ cleanText[p + 1] = "\n" /\ cleanText[p + 2] = "\n"}

PeriodsUpTo(last) == {p \in 0..last : p + 1 <= Len(cleanText) /\ cleanText[p + 1] = "."}

Last(S) == IF S = {} THEN -1 ELSE CHOOSE p \in S : \A r \in S : r <= p

\* the end the claim gives the window that starts at `start`
ClaimedEnd(start) ==
    LET tentative == start + opts.chunkSize
        p == Last(BreaksUpTo(tentative))
        s == Last(PeriodsUpTo(tentative))
    IN  IF p > start + opts.minChunkSize THEN p + 2
        ELSE IF s > start + opts.minChunkSize THEN s + 1
        ELSE tentative

\* the windows the claim is about: paragraph preservation on, window not the
\* last one
Snapped(c) == opts.preserveParagraphs /\ c.startIndex + opts.chunkSize < Len(cleanText)

\* C25: with preserveParagraphs on and a window that is not the last, the
\* window ends two past the last paragraph break at or before the tentative
\* end if that break lies beyond start + minChunkSize; otherwise one past
\* the last period under the same test; otherwise at the tentative end.
\* Every other window ends at min(startIndex + chunkSize, length).
C25_WindowEndPriority ==
    MultiPath =>
        \A k \in 1..Len(chunks) :
            LET start == chunks[k].startIndex
            IN  chunks[k].endIndex =
                    IF Snapped(chunks[k]) THEN ClaimedEnd(start)
                    ELSE IF start + opts.chunkSize < Len(cleanText)
                         THEN start + opts.chunkSize
                         ELSE Len(cleanText)

\* a window in which both a paragraph break and a period pass the test, and
\* the two would end the window at different places
C25_Witness ==
    /\ MultiPath
    /\ \E k \in 1..Len(chunks) :
          LET start == chunks[k].startIndex
              p == Last(BreaksUpTo(start + opts.chunkSize))
              s == Last(PeriodsUpTo(start + opts.chunkSize))
          IN  /\ Snapped(chunks[k])
              /\ p > start + opts.minChunkSize
              /\ s > start + opts.minChunkSize
              /\ p + 2 # s + 1
              /\ chunks[k].endIndex = p + 2

-----------------------------------------------------------------------------
(* Properties of the upload component *)

\* C26: the displayed state and the input fields are reset to idle only by
\* the timer of the upload whose success is on display: never while a
\* request is in flight, never by the timer of an earlier upload.
C26_ResetOnlyAfterOwnSuccess ==
    [][(component'.uploadState.status = "idle" /\ component.uploadState.status # "idle") =>
          (component.uploadState.status = "success"
             /\ component'.reset = component.shown)]_vars

-----------------------------------------------------------------------------
(* The order of the embeddings *)

\* C30: when generateEmbeddings returns, it returns one vector per text and
\* result[i] is the embedding of texts[i], across the sub-batch boundaries
\* and whatever order the requests were answered in.
C30_EmbeddingsInInputOrder ==
    embedding.state = "returned" =>
        /\ Len(embedding.result) = Len(embedding.texts)
        /\ \A i \in 1..Len(embedding.texts) :
              embedding.result[i] = Embed(Truncate(embedding.texts[i]))

\* a call over three sub-batches returned although answers had overtaken
\* one another
C30_Witness ==
    /\ embedding.state = "returned"
    /\ embedding.batches = 3
    /\ Len(embedding.result) > 2 * BatchSize
    /\ embedding.overtaken

====
